---- MODULE Spec2Model ----
(***************************************************************************)
(* A model of src/spaceinvaders.ts: the immutable game State, the world    *)
(* initialiser INITIAL_STATE and the transition pipeline that the frame    *)
(* driver folds over the input stream (scan(transition, INITIAL_STATE(""))).*)
(*                                                                         *)
(* Numbers.  The source computes with JavaScript numbers.  Every position  *)
(* and velocity the game produces is a multiple of 0.1 (ALIEN_VEL_INC.y),  *)
(* so the model keeps lengths as integers counted in 1/Unit of a pixel and *)
(* computes with them exactly (the rounding of binary floating point is    *)
(* not modelled).                                                          *)
(*                                                                         *)
(* Strings.  A string is a sequence of one-character strings, so that      *)
(* toUpperCase and String.includes are computed as the source does.        *)
(*                                                                         *)
(* simpleHash.  The hash of the serialised state cannot be computed here;  *)
(* its results are handed to the operators that use them (the parameter    *)
(* rnd of transition): the actions draw them from bounded sets, and the    *)
(* replayed games carry the values the hash takes on their frames.         *)
(***************************************************************************)
EXTENDS Integers, Sequences, FiniteSets, TLC

\* The fields of the State that scan holds, ...
VARIABLES gameRunning, level, player, aliens, alienVel, bullets, shields,
          score, ammo, ammoRegenTimer, message
\* ... the accumulator of the last call's reduce as removeBullet and as
\* shieldBulletCollision returned it, and whether that call ran the reduce, ...
VARIABLES advanced, collided, ran
\* ... the state that call was given, ...
VARIABLES given
\* ... the number of calls that ran the reduce since the first state of the
\* behaviour, and since the world was started, ...
VARIABLES steps, age
\* ... and the state of a second run of the program that is fed the same
\* inputs.
VARIABLES twin

gameVars == <<gameRunning, level, player, aliens, alienVel, bullets, shields,
              score, ammo, ammoRegenTimer, message>>
vars == <<gameVars, advanced, collided, ran, given, steps, age, twin>>

----------------------------------------------------------------------------
(* Bounds of the exploration (not program constants).                      *)

\* Running ticks explored from the first state of a behaviour.
MaxSteps == 2
\* Only the first MaxShooters aliens of state.aliens draw a shooting hash.
MaxShooters == 1

----------------------------------------------------------------------------
(* Utility class and functions                                             *)

Unit == 10

Vec2(x, y) == [x |-> x, y |-> y]

Abs(n) == IF n < 0 THEN -n ELSE n
Min2(a, b) == IF a < b THEN a ELSE b
Max2(a, b) == IF a > b THEN a ELSE b

VecAbs(v) == Vec2(Abs(v.x), Abs(v.y))
VecAdd(v, w) == Vec2(v.x + w.x, v.y + w.y)

\* T(s) for one step T of a reduce, with the accumulator s computed once.
Stage(s, T(_)) == CHOOSE r \in {T(v) : v \in {s}} : TRUE

\* Array.prototype.filter and .map on sequences.
Filter(s, Keep(_)) == SelectSeq(s, Keep)
Map(s, F(_)) == [k \in 1..Len(s) |-> F(s[k])]

\* A rectangleRectangleCollide for which touching edges overlap.
rectangleRectangleCollideTouching(r1, r2) ==
    /\ r1.pos.x + r1.width >= r2.pos.x
    /\ r1.pos.x <= r2.pos.x + r2.width
    /\ r1.pos.y + r1.height >= r2.pos.y
    /\ r1.pos.y <= r2.pos.y + r2.height

\* rectangleRectangleCollide evaluates: Rectangle r1 and Rectangle r2 overlaps.
rectangleRectangleCollide(r1, r2) ==
    /\ r1.pos.x + r1.width > r2.pos.x
    /\ r1.pos.x < r2.pos.x + r2.width
    /\ r1.pos.y + r1.height > r2.pos.y
    /\ r1.pos.y < r2.pos.y + r2.height

----------------------------------------------------------------------------
(* Strings                                                                 *)

ABC == <<"A", "B", "C", "D", "E", "F", "G", "H", "I", "J", "K", "L", "M",
         "N", "O", "P", "Q", "R", "S", "T", "U", "V", "W", "X", "Y", "Z">>
LowerCase == <<"a", "b", "c", "d", "e", "f", "g", "h", "i", "j", "k", "l", "m",
               "n", "o", "p", "q", "r", "s", "t", "u", "v", "w", "x", "y", "z">>

\* String.prototype.toUpperCase on the ASCII keys the model presses.
UpperChar(c) ==
    IF \E n \in 1..Len(LowerCase) : LowerCase[n] = c
    THEN ABC[CHOOSE n \in 1..Len(LowerCase) : LowerCase[n] = c]
    ELSE c
toUpperCase(s) == [k \in 1..Len(s) |-> UpperChar(s[k])]

\* String.prototype.includes: sub occurs in s as a contiguous substring.
Includes(s, sub) ==
    /\ Len(sub) <= Len(s)
    /\ \E k \in 0..(Len(s) - Len(sub)) : SubSeq(s, k + 1, k + Len(sub)) = sub

KEY_ENTER == <<"E", "n", "t", "e", "r">>

----------------------------------------------------------------------------
(* Constants                                                               *)

CANVAS_POS_X == 8 * Unit
CANVAS_WIDTH == 600 * Unit
CANVAS_HEIGHT == 600 * Unit

PLAYER_POS_INIT == Vec2(270 * Unit, 540 * Unit)
PLAYER_WIDTH == 48 * Unit
PLAYER_HEIGHT == 32 * Unit

ALIEN_WIDTH == 24 * Unit
ALIEN_HEIGHT == 20 * Unit
ALIEN_SPACING == Vec2(64 * Unit, 48 * Unit)
ALIEN_DROP_AMOUNT == 30 * Unit
ALIEN_ROWS == 4
ALIEN_COLS == 6
ALIEN_POS_INIT == Vec2(10 * Unit, 10 * Unit)
ALIEN_VEL_INIT == Vec2(1 * Unit, 0)
\* new Vec2(.5, .1)
ALIEN_VEL_INC == Vec2(5, 1)
\* pseudoRandom = hash / 2**32 < ALIEN_SHOOT_PROB = 0.001, that is
\* hash < 4294967.296: the largest hash that shoots.
ALIEN_SHOOT_HASH_MAX == 4294967

BULLET_WIDTH == 14 * Unit
BULLET_HEIGHT == 14 * Unit
BULLET_SPEED == 3 * Unit

SHIELD_COUNT == 4
SHIELD_POS == Vec2(0, 500 * Unit)
SHIELD_SPACING == 140 * Unit
SHIELD_WIDTH == 80 * Unit
SHIELD_HEIGHT == 32 * Unit
SHIELD_HEIGHT_REDUCTION == 2 * Unit

SCORE_SHOOT_DECREMENT == 20
SCORE_ALIEN_KILL == 100
SCORE_ALIEN_KILL_CHAR_MATCH == 400

AMMO_MAX == 20
AMMO_REGEN_AMOUNT == 4
\* 1000/FRAME_TIME with FRAME_TIME = 10
AMMO_REGEN_TIMER == 100

MESSAGE_INIT == <<"Press [Enter] to play.">>
\* `Oh no. Score: ${String(score)}. ${MESSAGE_INIT}`
MESSAGE_SCORE(s) == <<"Oh no. Score: ", ToString(s), ". ">> \o MESSAGE_INIT

----------------------------------------------------------------------------
(* INITIAL_STATE                                                           *)

\* cartesian(range(ALIEN_ROWS), range(ALIEN_COLS)): row-major pairs [i, j].
Grid == [k \in 1..(ALIEN_ROWS * ALIEN_COLS) |->
            <<(k - 1) \div ALIEN_COLS, (k - 1) % ALIEN_COLS>>]

\* simpleHash("" + JSON.stringify([i, j])) % ABC.length for the grid cells,
\* row by row: the letters of INITIAL_STATE("").
EMPTY_SEED_LAYOUT ==
    <<24, 20, 19, 16, 21, 14,
       9, 10,  3,  8,  6, 15,
       3,  2, 24,  3,  3, 12,
       5,  4, 13, 20, 19,  8>>

\* The aliens of INITIAL_STATE(seed); layout[k] stands for
\* simpleHash(seed + JSON.stringify([i, j])) % ABC.length of the k-th cell.
InitialAliens(layout) ==
    [k \in 1..Len(Grid) |->
        [pos |-> Vec2(ALIEN_POS_INIT.x + Grid[k][2] * ALIEN_SPACING.x,
                      ALIEN_POS_INIT.y + Grid[k][1] * ALIEN_SPACING.y),
         width |-> ALIEN_WIDTH,
         height |-> ALIEN_HEIGHT,
         character |-> <<ABC[layout[k] + 1]>>]]

InitialShields ==
    [n \in 1..SHIELD_COUNT |->
        LET i == n - 1
            shieldGap == SHIELD_SPACING - SHIELD_WIDTH
            totalShieldWidth == SHIELD_COUNT * SHIELD_SPACING - shieldGap
            OFFSET == CANVAS_WIDTH \div 2 - totalShieldWidth \div 2
        IN [pos |-> Vec2(SHIELD_POS.x + i * SHIELD_SPACING + OFFSET, SHIELD_POS.y),
            width |-> SHIELD_WIDTH,
            height |-> SHIELD_HEIGHT]]

INITIAL_STATE(layout) ==
    [gameRunning |-> FALSE,
     level |-> 1,
     player |-> [pos |-> PLAYER_POS_INIT, width |-> PLAYER_WIDTH, height |-> PLAYER_HEIGHT],
     aliens |-> InitialAliens(layout),
     alienVel |-> ALIEN_VEL_INIT,
     bullets |-> <<>>,
     shields |-> InitialShields,
     score |-> 0,
     ammo |-> AMMO_MAX,
     ammoRegenTimer |-> AMMO_REGEN_TIMER,
     message |-> MESSAGE_INIT]

----------------------------------------------------------------------------
(* State Transitions                                                       *)
(*                                                                         *)
(* A state is a record with the fields of type State.  An input is a       *)
(* function whose domain holds "mouse" and "keyboard" when the sample      *)
(* carries them (the optional properties of type Input).                   *)

\* A playerShoot that does not look at the ammo left.
playerShootWithoutAmmo(state, input) ==
    IF "keyboard" \notin DOMAIN input THEN state
    ELSE LET char == toUpperCase(input.keyboard.key) IN
         IF ~Includes(ABC, char) THEN state
         ELSE LET bullet == [shooter |-> "PLAYER",
                             pos |-> Vec2(state.player.pos.x + state.player.width \div 2
                                              - BULLET_WIDTH \div 2,
                                          state.player.pos.y),
                             vel |-> Vec2(0, -BULLET_SPEED),
                             width |-> BULLET_WIDTH,
                             height |-> BULLET_HEIGHT,
                             character |-> char]
              IN [state EXCEPT !.bullets = Append(state.bullets, bullet),
                               !.ammo = state.ammo - 1,
                               !.score = state.score - SCORE_SHOOT_DECREMENT]

\* A playerShoot that places the bullet at the player's left edge.
playerShootFromCorner(state, input) ==
    IF "keyboard" \notin DOMAIN input THEN state
    ELSE LET char == toUpperCase(input.keyboard.key) IN
         IF ~Includes(ABC, char) THEN state
         ELSE IF state.ammo <= 0 THEN state
         ELSE LET bullet == [shooter |-> "PLAYER",
                             pos |-> state.player.pos,
                             vel |-> Vec2(0, -BULLET_SPEED),
                             width |-> BULLET_WIDTH,
                             height |-> BULLET_HEIGHT,
                             character |-> char]
              IN [state EXCEPT !.bullets = Append(state.bullets, bullet),
                               !.ammo = state.ammo - 1,
                               !.score = state.score - SCORE_SHOOT_DECREMENT]

\* playerShoot creates a bullet at the player's position and decreases the
\* score by SCORE_SHOOT_DECREMENT.
playerShoot(state, input) ==
    IF "keyboard" \notin DOMAIN input THEN state
    ELSE LET char == toUpperCase(input.keyboard.key) IN
         IF ~Includes(ABC, char) THEN state
         ELSE IF state.ammo <= 0 THEN state
         ELSE LET bulletPosX == state.player.pos.x + state.player.width \div 2
                                    - BULLET_WIDTH \div 2
                  bulletPosY == state.player.pos.y
                  bullet == [shooter |-> "PLAYER",
                             pos |-> Vec2(bulletPosX, bulletPosY),
                             vel |-> Vec2(0, -BULLET_SPEED),
                             width |-> BULLET_WIDTH,
                             height |-> BULLET_HEIGHT,
                             character |-> char]
              IN [state EXCEPT !.bullets = Append(state.bullets, bullet),
                               !.ammo = state.ammo - 1,
                               !.score = state.score - SCORE_SHOOT_DECREMENT]

\* alienShoot creates a bullet from each alien whose hash falls under
\* ALIEN_SHOOT_PROB.  hash[k] stands for
\* simpleHash(JSON.stringify(state) + JSON.stringify(state.aliens[k])).
alienShoot(state, hash) ==
    LET Shooting == {k \in 1..Len(state.aliens) : hash[k] <= ALIEN_SHOOT_HASH_MAX}
        Shoots(k) == k \in Shooting
        shootingAliens == Filter([k \in 1..Len(state.aliens) |-> k], Shoots)
        BulletOf(k) ==
            LET alien == state.aliens[k] IN
            [shooter |-> "ALIEN",
             pos |-> Vec2(alien.pos.x + alien.width - BULLET_WIDTH \div 2,
                          alien.pos.y + alien.height - BULLET_HEIGHT),
             vel |-> Vec2(0, BULLET_SPEED),
             width |-> BULLET_WIDTH,
             height |-> BULLET_HEIGHT,
             character |-> <<ABC[(hash[k] % Len(ABC)) + 1]>>]
        alienBullets == Map(shootingAliens, BulletOf)
    IN [state EXCEPT !.bullets = state.bullets \o alienBullets]

\* A movePlayer that follows the pointer out of the canvas.
movePlayerUnbounded(state, input) ==
    IF "mouse" \notin DOMAIN input THEN state
    ELSE LET cursorX == input.mouse.pos.x - CANVAS_POS_X
         IN [state EXCEPT !.player.pos = Vec2(cursorX - state.player.width \div 2,
                                              state.player.pos.y)]

\* movePlayer updates the player position from the pointer sample.
movePlayer(state, input) ==
    IF "mouse" \notin DOMAIN input THEN state
    ELSE LET cursorX == input.mouse.pos.x - CANVAS_POS_X
             playerPosX == Min2(Max2(0, cursorX - state.player.width \div 2),
                                CANVAS_WIDTH - state.player.width)
         IN [state EXCEPT !.player.pos = Vec2(playerPosX, state.player.pos.y)]

\* The reduce of moveAlien: the least and the greatest of the aliens' x,
\* starting from [CANVAS_WIDTH, 0].
LeftRightMost(as) ==
    LET xs == {as[k].pos.x : k \in 1..Len(as)}
        ls == xs \cup {CANVAS_WIDTH}
        rs == xs \cup {0}
    IN <<CHOOSE l \in ls : \A x \in ls : l <= x,
         CHOOSE r \in rs : \A x \in rs : r >= x>>

\* A moveAlien that, at a wall, turns and drops the aliens but lets them
\* take their full step sideways.
moveAlienPastWall(state) ==
    LET lr == LeftRightMost(state.aliens)
        hitLeftWall == lr[1] + state.alienVel.x < 0
        hitRightWall == lr[2] + ALIEN_WIDTH + state.alienVel.x > CANVAS_WIDTH
        newVel == IF hitLeftWall \/ hitRightWall
                  THEN Vec2(-1 * state.alienVel.x, state.alienVel.y)
                  ELSE state.alienVel
        Moved(alien) ==
            [alien EXCEPT !.pos = Vec2(alien.pos.x + state.alienVel.x,
                                       IF hitLeftWall \/ hitRightWall
                                       THEN alien.pos.y + ALIEN_DROP_AMOUNT
                                       ELSE alien.pos.y + newVel.y)]
    IN [state EXCEPT !.aliens = Map(state.aliens, Moved), !.alienVel = newVel]

\* A moveAlien that does not drop the aliens at a wall.
moveAlienWithoutDrop(state) ==
    LET lr == LeftRightMost(state.aliens)
        hitLeftWall == lr[1] + state.alienVel.x < 0
        hitRightWall == lr[2] + ALIEN_WIDTH + state.alienVel.x > CANVAS_WIDTH
        newVel == IF hitLeftWall \/ hitRightWall
                  THEN Vec2(-1 * state.alienVel.x, state.alienVel.y)
                  ELSE state.alienVel
        alienPosXOffset == IF hitLeftWall THEN 0 - lr[1]
                           ELSE IF hitRightWall THEN CANVAS_WIDTH - ALIEN_WIDTH - lr[2]
                           ELSE newVel.x
        Moved(alien) ==
            [alien EXCEPT !.pos = Vec2(alien.pos.x + alienPosXOffset,
                                       alien.pos.y + newVel.y)]
    IN [state EXCEPT !.aliens = Map(state.aliens, Moved), !.alienVel = newVel]

\* moveAlien updates aliens positions and velocities.
moveAlien(state) ==
    LET lr == LeftRightMost(state.aliens)
        leftMost == lr[1]
        rightMost == lr[2]
        hitLeftWall == leftMost + state.alienVel.x < 0
        hitRightWall == rightMost + ALIEN_WIDTH + state.alienVel.x > CANVAS_WIDTH
        newVel == IF hitLeftWall \/ hitRightWall
                  THEN Vec2(-1 * state.alienVel.x, state.alienVel.y)
                  ELSE state.alienVel
        alienPosXOffset == IF hitLeftWall THEN 0 - leftMost
                           ELSE IF hitRightWall THEN CANVAS_WIDTH - ALIEN_WIDTH - rightMost
                           ELSE newVel.x
        Moved(alien) ==
            [alien EXCEPT !.pos = Vec2(alien.pos.x + alienPosXOffset,
                                       IF hitLeftWall \/ hitRightWall
                                       THEN alien.pos.y + ALIEN_DROP_AMOUNT
                                       ELSE alien.pos.y + newVel.y)]
    IN [state EXCEPT !.aliens = Map(state.aliens, Moved), !.alienVel = newVel]

\* moveBullet updates bullet positions.
moveBullet(state) ==
    LET Moved(b) == [b EXCEPT !.pos = VecAdd(b.pos, b.vel)]
    IN [state EXCEPT !.bullets = Map(state.bullets, Moved)]

\* A removeBullet that also removes the bullets below the canvas.
removeBulletBelow(state) ==
    LET Keep(b) == b.pos.y > 0 /\ b.pos.y < CANVAS_HEIGHT
    IN [state EXCEPT !.bullets = Filter(state.bullets, Keep)]

\* removeBullet removes out of screen bullets.
removeBullet(state) ==
    LET Keep(b) == b.pos.y > 0
    IN [state EXCEPT !.bullets = Filter(state.bullets, Keep)]

\* A playerAlienCollision that lets the game go on.
playerAlienCollisionIgnored(state) == state

\* playerAlienCollision ends the game if the player collides with any alien.
playerAlienCollision(state) ==
    LET collide == \E k \in 1..Len(state.aliens) :
                       rectangleRectangleCollide(state.player, state.aliens[k])
    IN IF ~collide THEN state
       ELSE [state EXCEPT !.gameRunning = FALSE,
                          !.message = MESSAGE_SCORE(state.score)]

\* A playerBulletCollision that does not look at the shooter.
playerBulletCollisionAnyShooter(state) ==
    LET collide == \E k \in 1..Len(state.bullets) :
                       rectangleRectangleCollide(state.player, state.bullets[k])
    IN IF ~collide THEN state
       ELSE [state EXCEPT !.gameRunning = FALSE,
                          !.message = MESSAGE_SCORE(state.score)]

\* playerBulletCollision ends the game if the player collides with any alien bullet.
playerBulletCollision(state) ==
    LET collide == \E k \in 1..Len(state.bullets) :
                       /\ state.bullets[k].shooter # "PLAYER"
                       /\ rectangleRectangleCollide(state.player, state.bullets[k])
    IN IF ~collide THEN state
       ELSE [state EXCEPT !.gameRunning = FALSE,
                          !.message = MESSAGE_SCORE(state.score)]

\* The two nested reduces that compute the new score of alienBulletCollision:
\* every pair of an alien and a bullet not shot by an alien that overlap adds
\* SCORE_ALIEN_KILL_CHAR_MATCH when their characters are equal and
\* SCORE_ALIEN_KILL when not.
ScoreAliens(as, bs, scoreA) ==
    LET hits == {p \in (1..Len(as)) \X (1..Len(bs)) :
                    /\ bs[p[2]].shooter # "ALIEN"
                    /\ rectangleRectangleCollide(as[p[1]], bs[p[2]])}
        matches == {p \in hits : as[p[1]].character = bs[p[2]].character}
    IN scoreA + Cardinality(matches) * SCORE_ALIEN_KILL_CHAR_MATCH
              + Cardinality(hits \ matches) * SCORE_ALIEN_KILL

\* An alienBulletCollision that scores every kill alike.
alienBulletCollisionFlatScore(state) ==
    LET Shot(a) == \E k \in 1..Len(state.bullets) :
                            /\ state.bullets[k].shooter # "ALIEN"
                            /\ rectangleRectangleCollide(a, state.bullets[k])
        KeepAlien(a) == ~Shot(a)
        KeepBullet(b) == ~\E k \in 1..Len(state.aliens) :
                            /\ b.shooter # "ALIEN"
                            /\ rectangleRectangleCollide(state.aliens[k], b)
    IN [state EXCEPT !.aliens = Filter(state.aliens, KeepAlien),
                     !.bullets = Filter(state.bullets, KeepBullet),
                     !.score = state.score
                                 + Len(Filter(state.aliens, Shot)) * SCORE_ALIEN_KILL]

\* alienBulletCollision removes alien and bullet that collided and increments score.
alienBulletCollision(state) ==
    LET KeepAlien(a) == ~\E k \in 1..Len(state.bullets) :
                            /\ state.bullets[k].shooter # "ALIEN"
                            /\ rectangleRectangleCollide(a, state.bullets[k])
        KeepBullet(b) == ~\E k \in 1..Len(state.aliens) :
                            /\ b.shooter # "ALIEN"
                            /\ rectangleRectangleCollide(state.aliens[k], b)
    IN [state EXCEPT !.aliens = Filter(state.aliens, KeepAlien),
                     !.bullets = Filter(state.bullets, KeepBullet),
                     !.score = ScoreAliens(state.aliens, state.bullets, state.score)]

\* The reduce that counts the bullets of one shooter overlapping shield s.
Hits(s, bs, shooter) ==
    Cardinality({k \in 1..Len(bs) :
        rectangleRectangleCollide(s, bs[k]) /\ bs[k].shooter = shooter})

\* A shieldBulletCollision that keeps the shields without height.
shieldBulletCollisionKeepsShields(state) ==
    LET Reduced(s) ==
            LET players == Hits(s, state.bullets, "PLAYER")
                hitsA == Hits(s, state.bullets, "ALIEN")
            IN [s EXCEPT !.pos = Vec2(s.pos.x, s.pos.y + hitsA * SHIELD_HEIGHT_REDUCTION),
                         !.height = s.height - (players + hitsA) * SHIELD_HEIGHT_REDUCTION]
        KeepBullet(b) == ~\E k \in 1..Len(state.shields) :
                            rectangleRectangleCollide(state.shields[k], b)
    IN [state EXCEPT !.shields = Map(state.shields, Reduced),
                     !.bullets = Filter(state.bullets, KeepBullet)]

\* A shieldBulletCollision that wears every shield from the bottom.
shieldBulletCollisionFromBelow(state) ==
    LET Reduced(s) ==
            [s EXCEPT !.height = s.height - (Hits(s, state.bullets, "PLAYER")
                                             + Hits(s, state.bullets, "ALIEN"))
                                                * SHIELD_HEIGHT_REDUCTION]
        HasHeight(s) == s.height > 0
        KeepBullet(b) == ~\E k \in 1..Len(state.shields) :
                            rectangleRectangleCollide(state.shields[k], b)
    IN [state EXCEPT !.shields = Filter(Map(state.shields, Reduced), HasHeight),
                     !.bullets = Filter(state.bullets, KeepBullet)]

\* shieldBulletCollision reduces height of shield for each bullet it collides with.
shieldBulletCollision(state) ==
    LET Reduced(s) ==
            LET players == Hits(s, state.bullets, "PLAYER")
                hitsA == Hits(s, state.bullets, "ALIEN")
            IN [s EXCEPT !.pos = Vec2(s.pos.x, s.pos.y + hitsA * SHIELD_HEIGHT_REDUCTION),
                         !.height = s.height - (players + hitsA) * SHIELD_HEIGHT_REDUCTION]
        reducedShields == Map(state.shields, Reduced)
        HasHeight(s) == s.height > 0
        KeepBullet(b) == ~\E k \in 1..Len(state.shields) :
                            rectangleRectangleCollide(state.shields[k], b)
    IN [state EXCEPT !.shields = Filter(reducedShields, HasHeight),
                     !.bullets = Filter(state.bullets, KeepBullet)]

\* A noMoreAliens that never builds a new grid.
noMoreAliensStaysEmpty(state, layout) == state

\* A noMoreAliens that looks only at the number of aliens.
noMoreAliensWhenEmpty(state, layout) ==
    IF state.aliens # << >> THEN state
    ELSE [state EXCEPT !.level = state.level + 1,
                       !.aliens = INITIAL_STATE(layout).aliens,
                       !.alienVel = VecAdd(VecAbs(state.alienVel), ALIEN_VEL_INC)]

\* A noMoreAliens that keeps the direction of alienVel.
noMoreAliensKeepsDirection(state, layout) ==
    LET aliensExists == \E k \in 1..Len(state.aliens) :
            state.aliens[k].pos.y <= state.player.pos.y + state.player.height
    IN IF aliensExists THEN state
       ELSE [state EXCEPT !.level = state.level + 1,
                          !.aliens = INITIAL_STATE(layout).aliens,
                          !.alienVel = VecAdd(state.alienVel, ALIEN_VEL_INC)]

\* A noMoreAliens that skips a level.
noMoreAliensSkipsLevel(state, layout) ==
    LET aliensExists == \E k \in 1..Len(state.aliens) :
            state.aliens[k].pos.y <= state.player.pos.y + state.player.height
    IN IF aliensExists THEN state
       ELSE [state EXCEPT !.level = state.level + 2,
                          !.aliens = INITIAL_STATE(layout).aliens,
                          !.alienVel = VecAdd(VecAbs(state.alienVel), ALIEN_VEL_INC)]

\* noMoreAliens returns new level state if there are no more aliens.
\* layout stands for the hashes of INITIAL_STATE(JSON.stringify(state)).
noMoreAliens(state, layout) ==
    LET aliensExists == \E k \in 1..Len(state.aliens) :
            state.aliens[k].pos.y <= state.player.pos.y + state.player.height
    IN IF aliensExists THEN state
       ELSE [state EXCEPT !.level = state.level + 1,
                          !.aliens = INITIAL_STATE(layout).aliens,
                          !.alienVel = VecAdd(VecAbs(state.alienVel), ALIEN_VEL_INC)]

\* ammoRegen increments ammo by AMMO_REGEN_AMOUNT but no more than AMMO_MAX.
ammoRegen(state) ==
    IF state.ammoRegenTimer > 0
    THEN [state EXCEPT !.ammoRegenTimer = state.ammoRegenTimer - 1]
    ELSE [state EXCEPT !.ammo = Min2(AMMO_MAX, state.ammo + AMMO_REGEN_AMOUNT),
                       !.ammoRegenTimer = AMMO_REGEN_TIMER]

\* The stages of transition up to and including removeBullet.
Advance(state, input, rnd) ==
    LET PlayerShoot(s) == playerShoot(s, input)
        AlienShoot(s) == alienShoot(s, rnd.shoot)
        MovePlayer(s) == movePlayer(s, input)
    IN Stage(Stage(Stage(Stage(Stage(Stage(state,
           PlayerShoot), AlienShoot), MovePlayer), moveAlien), moveBullet),
           removeBullet)

\* The four collision stages, which follow.
Collisions(state) ==
    Stage(Stage(Stage(Stage(state,
        playerAlienCollision), playerBulletCollision), alienBulletCollision),
        shieldBulletCollision)

\* The stages of transition up to and including shieldBulletCollision.
Collide(state, input, rnd) == Collisions(Advance(state, input, rnd))

\* The reduce of transition over the twelve stages.
Pipeline(state, input, rnd) ==
    LET NoMoreAliens(s) == noMoreAliens(s, rnd.layout)
    IN Stage(Stage(Collide(state, input, rnd), NoMoreAliens), ammoRegen)

\* A transition that runs the stages on a stopped game.
transitionWhileStopped(state, input, rnd) ==
    IF /\ ~state.gameRunning
       /\ "keyboard" \in DOMAIN input
       /\ input.keyboard.key = KEY_ENTER
    THEN [INITIAL_STATE(rnd.layout) EXCEPT !.gameRunning = TRUE]
    ELSE Pipeline(state, input, rnd)

\* A transition that runs the stages on the world it has just started.
transitionStartsAndRuns(state, input, rnd) ==
    IF /\ ~state.gameRunning
       /\ "keyboard" \in DOMAIN input
       /\ input.keyboard.key = KEY_ENTER
    THEN Pipeline([INITIAL_STATE(rnd.layout) EXCEPT !.gameRunning = TRUE], input, rnd)
    ELSE IF ~state.gameRunning THEN state
    ELSE Pipeline(state, input, rnd)

\* transition returns the next state given some state and input.
transition(state, input, rnd) ==
    IF /\ ~state.gameRunning
       /\ "keyboard" \in DOMAIN input
       /\ input.keyboard.key = KEY_ENTER
    THEN [INITIAL_STATE(rnd.layout) EXCEPT !.gameRunning = TRUE]
    ELSE IF ~state.gameRunning THEN state
    ELSE Pipeline(state, input, rnd)

----------------------------------------------------------------------------
(* The frame driver: input$.pipe(scan(transition, INITIAL_STATE("")))      *)

St == [gameRunning |-> gameRunning, level |-> level, player |-> player,
       aliens |-> aliens, alienVel |-> alienVel, bullets |-> bullets,
       shields |-> shields, score |-> score, ammo |-> ammo,
       ammoRegenTimer |-> ammoRegenTimer, message |-> message]

\* The variables hold the fields of state s.
Holds(s) ==
    /\ gameRunning = s.gameRunning
    /\ level = s.level
    /\ player = s.player
    /\ aliens = s.aliens
    /\ alienVel = s.alienVel
    /\ bullets = s.bullets
    /\ shields = s.shields
    /\ score = s.score
    /\ ammo = s.ammo
    /\ ammoRegenTimer = s.ammoRegenTimer
    /\ message = s.message

Becomes(s) ==
    /\ gameRunning' = s.gameRunning
    /\ level' = s.level
    /\ player' = s.player
    /\ aliens' = s.aliens
    /\ alienVel' = s.alienVel
    /\ bullets' = s.bullets
    /\ shields' = s.shields
    /\ score' = s.score
    /\ ammo' = s.ammo
    /\ ammoRegenTimer' = s.ammoRegenTimer
    /\ message' = s.message

\* Input samples: the pointer's clientX (the y is never read) and the key.
MouseXs == {163 * Unit}
Keys == {<<"a">>, KEY_ENTER}

NoInput == [f \in {} |-> 0]
MouseOf(x) == [pos |-> Vec2(x, 0)]
OnlyMouse(x) == [f \in {"mouse"} |-> MouseOf(x)]
OnlyKey(k) == [f \in {"keyboard"} |-> [key |-> k]]
MouseAndKey(x, k) == [mouse |-> MouseOf(x), keyboard |-> [key |-> k]]
Inputs ==
    {NoInput}
    \cup {OnlyMouse(x) : x \in MouseXs}
    \cup {OnlyKey(k) : k \in Keys}
    \cup {MouseAndKey(x, k) : x \in MouseXs, k \in Keys}

\* Results of simpleHash.  A hash of at most ALIEN_SHOOT_HASH_MAX makes the
\* alien shoot; QUIET_HASH does not.
QUIET_HASH == ALIEN_SHOOT_HASH_MAX + 1
Cells == 1..(ALIEN_ROWS * ALIEN_COLS)
Shooting(who) == [k \in Cells |-> IF k \in who THEN ALIEN_SHOOT_HASH_MAX ELSE QUIET_HASH]

\* The hashes alienShoot may see in state s.
ShootChoices(s) ==
    {Shooting(who) : who \in SUBSET (1..Min2(MaxShooters, Len(s.aliens)))}

\* The hashes that decide the letters of a regenerated alien grid.
ALL_A_LAYOUT == [k \in Cells |-> 0]
AB_LAYOUT == [k \in Cells |-> k % 2]
Layouts == {ALL_A_LAYOUT, AB_LAYOUT}

\* The hash outcomes a call of transition may meet in state s.
Oracles(s) == {[shoot |-> sh, layout |-> l] : sh \in ShootChoices(s), l \in Layouts}

\* One call of transition on state s: the state it returns and, when it runs
\* the reduce, the accumulator after removeBullet and after
\* shieldBulletCollision (the returned state stands for them when it does not).
Call(s, input, rnd) ==
    LET new == transition(s, input, rnd)
    IN IF ~s.gameRunning
       THEN [new |-> new, advanced |-> new, collided |-> new, rnd |-> rnd]
       ELSE CHOOSE c \in {[new |-> new, advanced |-> adv, collided |-> Collisions(adv),
                            rnd |-> rnd] :
                              adv \in {Advance(s, input, rnd)}} : TRUE

\* The calls of transition on state s for one input: one per outcome of the
\* hashes.  The layout is drawn only when the call builds a new alien grid.
Calls(s, input) ==
    UNION {LET first == Call(s, input, [shoot |-> sh, layout |-> ALL_A_LAYOUT])
           IN IF first.new.aliens = INITIAL_STATE(ALL_A_LAYOUT).aliens
              THEN {[first EXCEPT !.new = transition(s, input, [shoot |-> sh, layout |-> l]),
                                  !.rnd = [shoot |-> sh, layout |-> l]] :
                       l \in Layouts}
              ELSE {first}
           : sh \in ShootChoices(s)}

\* The hash outcomes of a second run whose generator carries a state of its
\* own from call to call: they need not repeat those of the first run.
SecondDrawFromGenerator(s, t, rnd) == Oracles(t)

\* The hash outcomes the second run meets in state t, when the first run met
\* rnd in state s on the same input.  simpleHash reads nothing but its
\* argument, and the strings hashed in a call are serialisations of the
\* state and of its aliens (JSON.stringify(state) + JSON.stringify(alien) in
\* alienShoot, the seed JSON.stringify(state) of INITIAL_STATE): from equal
\* states both runs hash equal strings.
SecondDraw(s, t, rnd) == IF t = s THEN {rnd} ELSE Oracles(t)

\* The driver holds state s, reached by n running calls since the world was
\* started, and has made no call yet in this behaviour.
Starts(s, n) ==
    /\ Holds(s)
    /\ advanced = s
    /\ collided = s
    /\ ran = FALSE
    /\ given = s
    /\ steps = 0
    /\ age = n
    /\ twin = s

Init == Starts(INITIAL_STATE(EMPTY_SEED_LAYOUT), 0)

\* One emission of input$, drawn from ins: scan applies transition to the
\* state.  With both, the second run makes the same call.
Feed(ins, both) ==
    /\ gameRunning => steps < MaxSteps
    /\ \E input \in ins :
         \E call \in Calls(St, input) :
            /\ Becomes(call.new)
            /\ advanced' = call.advanced
            /\ collided' = call.collided
            /\ ran' = gameRunning
            /\ given' = St
            /\ steps' = IF gameRunning THEN steps + 1 ELSE steps
            /\ age' = IF gameRunning THEN age + 1
                      ELSE IF call.new.gameRunning THEN 0 ELSE age
            /\ IF both
               THEN \E again \in SecondDraw(St, twin, call.rnd) :
                        twin' = transition(twin, input, again)
               ELSE twin' = twin

Tick == Feed(Inputs, FALSE)

Next == Tick

Spec == Init /\ [][Next]_vars

\* The same driver with the second run beside it.
TwinTick == Feed(Inputs, TRUE)

NextTwin == TwinTick

\* Key samples of every kind: an uppercase and a lowercase letter, the empty
\* string, two letters in a row of the alphabet, a digit and a named key.
ShootKeys == {<<"A">>, <<"a">>, << >>, <<"A", "B">>, <<"1">>, KEY_ENTER}
KeyInputs ==
    {NoInput}
    \cup {OnlyMouse(x) : x \in MouseXs}
    \cup {OnlyKey(k) : k \in ShootKeys}

\* The same driver fed those key samples.
Press == Feed(KeyInputs, FALSE)

NextKeys == Press

\* Pointer samples left of the canvas, over it and right of it, and the
\* start key.
PointerXs == {0, 163 * Unit, 700 * Unit}
PointerInputs ==
    {NoInput, OnlyKey(KEY_ENTER)}
    \cup {OnlyMouse(x) : x \in PointerXs}

\* The same driver fed those pointer samples.
Point == Feed(PointerInputs, FALSE)

NextPointers == Point

\* Calls with the samples that matter to the aliens: none, a shot, the
\* start key.
MarchInputs == {NoInput, OnlyKey(<<"a">>), OnlyKey(KEY_ENTER)}
March == Feed(MarchInputs, FALSE)
NextWalls == March

----------------------------------------------------------------------------
(* Replayed games.  The states further into a game are computed by folding *)
(* transition over a fixed input script from INITIAL_STATE(""), as scan    *)
(* does; each is a state the driver reaches when it is fed that script.    *)
(* Frame 0 is the first call of transition.  CANVAS_POS_X is 8 pixels, and *)
(* the hashes are those simpleHash returns in that game.                   *)

\* simpleHash(JSON.stringify(INITIAL_STATE("")) + JSON.stringify([i, j]))
\* % ABC.length, row by row: the letters of the first game.
FIRST_GAME_LAYOUT ==
    <<25,  9, 17,  0, 10,  7,
      16, 18, 13, 22,  9, 12,
       3, 16, 15,  2, 12, 16,
       1, 12, 24, 15,  1, 12>>

\* The input of frame f: a key, or a mouse sample at clientX px.
Key(f, k) == <<f, OnlyKey(k)>>
Mouse(f, px) == <<f, OnlyMouse(px * Unit)>>

\* The input a script feeds on frame f.
InputAt(script, f) ==
    LET at == {e \in script.inputs : e[1] = f}
    IN IF at = {} THEN NoInput ELSE (CHOOSE e \in at : TRUE)[2]

\* The hashes alienShoot sees on frame f of a script: shots holds
\* <<frame, position in state.aliens, hash>> for the hashes below
\* ALIEN_SHOOT_PROB * 2^32; no other alien shoots.
HashesAt(script, f) ==
    LET at == {e \in script.shots : e[1] = f}
    IN [k \in Cells |-> IF \E e \in at : e[2] = k
                        THEN (CHOOSE e \in at : e[2] = k)[3]
                        ELSE QUIET_HASH]

\* The letters INITIAL_STATE draws on frame f of a script: those of the
\* first game on the start, and those of the field regrid of the script on
\* the frame of its level-up.
LayoutAt(script, f) ==
    IF "regrid" \in DOMAIN script
    THEN IF f = script.regrid.frame THEN script.regrid.layout ELSE FIRST_GAME_LAYOUT
    ELSE FIRST_GAME_LAYOUT

\* The frames lo..hi of a script applied to s, in order.
RECURSIVE Replay(_, _, _, _)
Replay(s, script, lo, hi) ==
    IF lo > hi THEN s
    ELSE IF lo = hi
    THEN transition(s, InputAt(script, lo),
                    [shoot |-> HashesAt(script, lo), layout |-> LayoutAt(script, lo)])
    ELSE LET mid == (lo + hi) \div 2
             Rest(next) == Replay(next, script, mid + 1, hi)
         IN Stage(Replay(s, script, lo, mid), Rest)

Played(script) == Replay(INITIAL_STATE(EMPTY_SEED_LAYOUT), script, 0, script.last)

\* No frame at all: the game as constructed.
NOT_STARTED == [last |-> 0 - 1, inputs |-> {}, shots |-> {}]

\* Start and wait: the bullet an alien shot on frame 97 reaches the player,
\* who has not moved, on frame 251.
WAIT_FOR_BULLET ==
    [last |-> 249,
     inputs |-> {Key(0, KEY_ENTER)},
     shots |-> {<<17, 10, 4277963>>, <<97, 10, 3567264>>, <<104, 4, 2257419>>, <<131, 11, 305367>>,
               <<201, 15, 2761256>>, <<241, 17, 2244516>>, <<241, 21, 1099722>>, <<244, 19, 1724804>>}]

\* Start, move under the second shield and shoot on nineteen frames.
SHOOT_UNDER_SHIELD ==
    [last |-> 20,
     inputs |-> {Key(0, KEY_ENTER), Mouse(1, 242)} \cup {Key(f, <<"a">>) : f \in 2..20},
     shots |-> {<<9, 11, 2189171>>}]

\* ... then shoot once more and wait: the twenty bullets wear the shield down.
WEAR_SHIELD_DOWN ==
    [last |-> 27,
     inputs |-> SHOOT_UNDER_SHIELD.inputs \cup {Key(21, <<"a">>)},
     shots |-> SHOOT_UNDER_SHIELD.shots]

\* Start, wait, and shoot twice just before the ammo countdown runs out.
SHOOT_BEFORE_REGEN ==
    [last |-> 99,
     inputs |-> {Key(0, KEY_ENTER), Key(98, <<"a">>), Key(99, <<"a">>)},
     shots |-> {<<17, 10, 4277963>>, <<97, 10, 3567264>>}]

\* Start, shoot once on frame 109 and step out of the way of an alien's
\* bullet on frame 251.  The player's bullet lands on frame 269, when a
\* bullet of an alien is at the player's height, 155 pixels from the left wall.
SHOOT_ONCE ==
    [last |-> 267,
     inputs |-> {Key(0, KEY_ENTER), Mouse(108, 302), Key(109, <<"a">>), Mouse(251, 32)},
     shots |-> {<<17, 10, 4277963>>, <<97, 10, 3567264>>, <<104, 4, 2257419>>, <<129, 13, 4109294>>,
               <<135, 10, 3093684>>, <<231, 19, 1853198>>, <<235, 13, 644592>>}]

\* Start and shoot all twenty-four aliens, waiting for ammo after the
\* twentieth shot; the last alien is hit on frame 269.
SHOOT_ALL ==
    [last |-> 267,
     inputs |-> {Key(0, KEY_ENTER), Mouse(1, 286), Key(2, <<"a">>), Mouse(3, 286),
                Key(4, <<"a">>), Mouse(5, 286), Key(6, <<"a">>), Mouse(7, 302),
                Key(8, <<"a">>), Mouse(9, 286), Key(10, <<"a">>), Mouse(11, 322),
                Key(12, <<"a">>), Mouse(13, 426), Key(14, <<"a">>), Mouse(15, 426),
                Key(16, <<"a">>), Mouse(17, 426), Key(18, <<"a">>), Mouse(19, 442),
                Key(20, <<"a">>), Mouse(21, 426), Key(22, <<"a">>), Mouse(23, 462),
                Key(24, <<"a">>), Mouse(25, 286), Key(26, <<"a">>), Mouse(37, 426),
                Key(38, <<"a">>), Mouse(41, 286), Key(42, <<"a">>), Mouse(53, 426),
                Key(54, <<"a">>), Mouse(55, 190), Key(56, <<"a">>), Mouse(57, 566),
                Key(58, <<"a">>), Mouse(59, 286), Key(60, <<"a">>), Mouse(61, 566),
                Key(62, <<"a">>), Mouse(102, 286), Key(103, <<"a">>), Mouse(104, 286),
                Key(105, <<"a">>), Mouse(106, 566), Key(107, <<"a">>), Mouse(108, 566),
                Key(109, <<"a">>)},
     shots |-> {<<6, 14, 757476>>, <<150, 14, 2587292>>, <<210, 4, 190145>>}]

\* Start, step to the left wall and shoot once on frame 41: the bullet
\* passes left of the aliens and reaches the top of the canvas on frame 220,
\* when a bullet shot by an alien passes the bottom of the canvas.
REACH_TOP ==
    [last |-> 218,
     inputs |-> {Key(0, KEY_ENTER), Mouse(1, 32), Key(41, <<"a">>)},
     shots |-> {<<21, 24, 1571398>>, <<51, 18, 891362>>, <<74, 20, 1043866>>, <<136, 17, 1724314>>,
               <<137, 17, 3709530>>, <<192, 3, 1122663>>}]

\* Start and never shoot: step out of the way of the aliens and their
\* bullets until every alien is below the player, on frame 4873.
LET_ALIENS_PASS ==
    [last |-> 4871,
     inputs |-> {Key(0, KEY_ENTER), Mouse(251, 32), Mouse(1160, 576), Mouse(1398, 32),
                Mouse(3540, 576), Mouse(3789, 32), Mouse(4054, 576), Mouse(4303, 32),
                Mouse(4568, 576), Mouse(4817, 32)},
     shots |-> {<<17, 10, 4277963>>, <<97, 10, 3567264>>, <<104, 4, 2257419>>, <<131, 11, 305367>>,
               <<201, 15, 2761256>>, <<241, 17, 2244516>>, <<241, 21, 1099722>>, <<244, 19, 1724804>>,
               <<287, 8, 812517>>, <<486, 9, 377395>>, <<551, 11, 1633532>>, <<622, 18, 4089825>>,
               <<647, 5, 3183644>>, <<764, 10, 1905626>>, <<787, 17, 102404>>, <<792, 5, 3275270>>,
               <<805, 13, 2595988>>, <<834, 10, 3378106>>, <<838, 24, 4082352>>, <<878, 22, 3896940>>,
               <<880, 24, 3357413>>, <<924, 10, 3594118>>, <<957, 17, 1893519>>, <<965, 20, 2734255>>,
               <<983, 14, 417808>>, <<1030, 1, 3955115>>, <<1058, 15, 1112653>>, <<1071, 23, 2346763>>,
               <<1083, 12, 3072701>>, <<1132, 24, 3570756>>, <<1135, 8, 1868072>>, <<1150, 12, 365283>>,
               <<1168, 24, 2641546>>, <<1253, 14, 173582>>, <<1268, 17, 4089647>>, <<1310, 18, 890415>>,
               <<1385, 3, 4283400>>, <<1464, 15, 3536846>>, <<1526, 3, 905433>>, <<1541, 23, 3142970>>,
               <<1585, 5, 838431>>, <<1607, 20, 2082127>>, <<1683, 24, 2231858>>, <<1885, 20, 3428905>>,
               <<1937, 5, 564554>>, <<1969, 6, 725801>>, <<1969, 14, 2033145>>, <<2015, 19, 58860>>,
               <<2021, 14, 80451>>, <<2038, 23, 4107620>>, <<2071, 2, 2037195>>, <<2079, 1, 2812945>>,
               <<2182, 15, 3637991>>, <<2241, 2, 1307312>>, <<2300, 1, 196702>>, <<2321, 16, 4291387>>,
               <<2373, 5, 300802>>, <<2394, 14, 2176487>>, <<2398, 19, 2467842>>, <<2519, 1, 2151020>>,
               <<2521, 6, 2894122>>, <<2549, 9, 1774882>>, <<2634, 9, 1693450>>, <<2663, 4, 762596>>,
               <<2677, 2, 2515382>>, <<2722, 17, 2967671>>, <<2768, 20, 3849382>>, <<2782, 19, 3869084>>,
               <<2788, 23, 914468>>, <<2921, 13, 1963781>>, <<2929, 3, 1619185>>, <<2938, 7, 254224>>,
               <<2949, 19, 3526102>>, <<2970, 22, 1040778>>, <<3027, 10, 3109814>>, <<3059, 17, 2307866>>,
               <<3068, 2, 728968>>, <<3112, 15, 3702006>>, <<3171, 5, 1545362>>, <<3216, 24, 2780849>>,
               <<3233, 15, 2870278>>, <<3242, 20, 3499106>>, <<3261, 19, 2177675>>, <<3456, 1, 1430369>>,
               <<3459, 24, 4182770>>, <<3504, 24, 618368>>, <<3513, 9, 3384932>>, <<3517, 3, 3459458>>,
               <<3695, 11, 4044558>>, <<3721, 21, 2300544>>, <<3757, 20, 4125019>>, <<3768, 20, 840813>>,
               <<3813, 8, 2547890>>, <<3896, 5, 1853185>>, <<3913, 22, 230009>>, <<4079, 19, 1081385>>,
               <<4133, 2, 2634748>>, <<4143, 23, 2388671>>, <<4397, 22, 2336236>>, <<4432, 10, 584764>>,
               <<4438, 4, 3814258>>, <<4476, 13, 1970469>>, <<4510, 7, 1742372>>, <<4519, 14, 1246196>>,
               <<4630, 5, 407445>>, <<4674, 9, 3948666>>, <<4686, 9, 1298461>>, <<4690, 14, 3139512>>,
               <<4758, 18, 1202014>>, <<4779, 5, 1465021>>, <<4815, 3, 2936056>>}]

\* The same game up to frame 4566, when the lowest row of aliens is at the
\* player's height and comes towards the player from the right.
MEET_ALIENS == [LET_ALIENS_PASS EXCEPT !.last = 4566]

\* The same game up to frame 502: the aliens, on their way back, reach the
\* left wall on frame 504.
REACH_LEFT_WALL == [LET_ALIENS_PASS EXCEPT !.last = 502]

\* The game SHOOT_ALL up to frame 186: on frame 188 the bullet shot with the
\* key a reaches the alien with the letter A.
AIM_AT_LETTER == [SHOOT_ALL EXCEPT !.last = 186]

\* The same game up to frame 172: on frame 174 four bullets reach four
\* aliens.
HIT_FOUR == [SHOOT_ALL EXCEPT !.last = 172]

\* The same game up to frame 128: on frame 130 the bullet an alien shot on
\* frame 6 reaches the first shield, which no bullet has touched.
UNDER_FIRE == [SHOOT_ALL EXCEPT !.last = 128]

\* The game LET_ALIENS_PASS up to frame 245: the aliens reach the right wall
\* on frame 247.
REACH_RIGHT_WALL == [LET_ALIENS_PASS EXCEPT !.last = 245]

\* The game SHOOT_ALL carried on at level 2, whose grid is drawn on frame
\* 269: four shots on frames 301 to 335 take out the left column of the new
\* grid, the player steps aside on frame 428, and the aliens, on their way
\* back from the right wall at 1.5 pixels a frame, are half a pixel from
\* the left wall after frame 647.
CLEAR_LEFT_COLUMN ==
    [last |-> 646,
     inputs |-> SHOOT_ALL.inputs \cup
                {Mouse(300, 285), Key(301, <<"a">>), Mouse(302, 287), Key(303, <<"a">>),
                 Mouse(332, 189), Key(333, <<"a">>), Mouse(334, 163), Key(335, <<"a">>),
                 Mouse(428, 32)},
     shots |-> SHOOT_ALL.shots \cup
               {<<276, 9, 1860996>>, <<277, 24, 1312025>>, <<283, 19, 3721116>>,
                <<321, 18, 2477668>>, <<364, 20, 469496>>, <<404, 7, 555813>>,
                <<415, 2, 3785577>>, <<516, 18, 749075>>, <<529, 4, 1193835>>},
     regrid |-> [frame |-> 269,
                 layout |-> <<19,  5,  8,  2,  5,  0,
                              17, 14,  7, 14, 14, 14,
                               4,  2,  3,  1, 13, 24,
                               1, 14, 21,  6, 19, 15>>]]

Scripts == {NOT_STARTED, WAIT_FOR_BULLET, MEET_ALIENS, REACH_LEFT_WALL, AIM_AT_LETTER,
            HIT_FOUR, UNDER_FIRE, REACH_TOP, SHOOT_UNDER_SHIELD, WEAR_SHIELD_DOWN, SHOOT_BEFORE_REGEN,
            SHOOT_ONCE, SHOOT_ALL, LET_ALIENS_PASS}

InitReplay == \E script \in Scripts : Starts(Played(script), Max2(script.last, 0))

SpecReplay == InitReplay /\ [][Next]_vars

\* Two runs side by side, from the construction, from a game in which aliens
\* are about to shoot and from one about to reach the next level.
TwinScripts == {NOT_STARTED, WAIT_FOR_BULLET, SHOOT_ALL}

InitTwin == \E script \in TwinScripts : Starts(Played(script), Max2(script.last, 0))

SpecTwin == InitTwin /\ [][NextTwin]_vars

\* Key samples are fed to the constructed state and to a game with one
\* unit of ammo left.
KeyScripts == {NOT_STARTED, SHOOT_UNDER_SHIELD}

InitKeys == \E script \in KeyScripts : Starts(Played(script), Max2(script.last, 0))

SpecKeys == InitKeys /\ [][NextKeys]_vars

\* Pointer samples are fed to the constructed state and to a game in which
\* the player, at the left wall, is about to meet the aliens.
PointerScripts == {NOT_STARTED, MEET_ALIENS}

InitPointers == \E script \in PointerScripts : Starts(Played(script), Max2(script.last, 0))

SpecPointers == InitPointers /\ [][NextPointers]_vars

\* Games in which the aliens are about to reach a wall, at level 1 and at
\* level 2, or to be drawn again.
WallScripts == {NOT_STARTED, REACH_RIGHT_WALL, REACH_LEFT_WALL, SHOOT_ALL, CLEAR_LEFT_COLUMN}
InitWalls == \E script \in WallScripts : Starts(Played(script), Max2(script.last, 0))
SpecWalls == InitWalls /\ [][NextWalls]_vars

----------------------------------------------------------------------------
(* Properties                                                              *)

\* The input carries the start key.
IsStart(input) ==
    IF "keyboard" \in DOMAIN input THEN input.keyboard.key = KEY_ENTER ELSE FALSE

\* The upper-left corner of the alien in row i and column j of a new grid.
GridPos(i, j) ==
    Vec2(ALIEN_POS_INIT.x + j * ALIEN_SPACING.x, ALIEN_POS_INIT.y + i * ALIEN_SPACING.y)

\* The aliens of state s stand on the full grid, row by row.
OnFullGrid(s) ==
    /\ Len(s.aliens) = ALIEN_ROWS * ALIEN_COLS
    /\ \A i \in 0..(ALIEN_ROWS - 1) : \A j \in 0..(ALIEN_COLS - 1) :
           s.aliens[i * ALIEN_COLS + j + 1].pos = GridPos(i, j)

\* The player of state s overlaps an alien, or a bullet it did not shoot.
PlayerIsHit(s) ==
    \/ \E k \in 1..Len(s.aliens) : rectangleRectangleCollide(s.player, s.aliens[k])
    \/ \E k \in 1..Len(s.bullets) :
           /\ s.bullets[k].shooter # "PLAYER"
           /\ rectangleRectangleCollide(s.player, s.bullets[k])

\* The game has ended and has not been started again.
GameOver == ~gameRunning /\ message # MESSAGE_INIT

\* C1: in every state reached from INITIAL_STATE("") by calls of transition,
\* the ammo is at least 0 and at most AMMO_MAX.
C1_AmmoBounds == 0 <= ammo /\ ammo <= AMMO_MAX

\* The ammo was regenerated while two shots were missing from a full stock:
\* the sum would pass AMMO_MAX.
C1_RegenAtCap ==
    /\ gameRunning
    /\ ammo = AMMO_MAX
    /\ ammoRegenTimer = AMMO_REGEN_TIMER
    /\ Len(SelectSeq(bullets, LAMBDA b : b.shooter = "PLAYER")) >= 2

\* C2: every shield in the shields of a reached state has a height above 0.
C2_ShieldHeight == \A k \in 1..Len(shields) : shields[k].height > 0

\* The shieldBulletCollision of a call took a shield out: bullets had worn
\* it down to nothing.
C2_ShieldGone == ran /\ Len(collided.shields) < Len(advanced.shields)

\* C3: in a state with gameRunning = FALSE, transition returns the state
\* itself for every input that does not carry the start key, with or without
\* a mouse sample.
C3_StartGating ==
    ~gameRunning =>
        \A input \in Inputs : \A rnd \in Oracles(St) :
            ~IsStart(input) => transition(St, input, rnd) = St

\* A game that ended is offered inputs without the start key.
C3_Frozen == GameOver /\ \E input \in Inputs : ~IsStart(input)

\* C4: in a state with gameRunning = FALSE, transition with the start key
\* returns a new world that is running: level 1, score 0, full ammo, the
\* countdown at AMMO_REGEN_TIMER, no bullets, SHIELD_COUNT shields of full
\* height, the full alien grid, ALIEN_VEL_INIT and the player at its start;
\* no stage of the pipeline has acted on it.
C4_Restart ==
    ~gameRunning =>
        \A input \in Inputs : \A rnd \in Oracles(St) :
            IsStart(input) =>
                LET new == transition(St, input, rnd)
                IN /\ new.gameRunning
                   /\ new.level = 1
                   /\ new.score = 0
                   /\ new.ammo = AMMO_MAX
                   /\ new.ammoRegenTimer = AMMO_REGEN_TIMER
                   /\ new.bullets = << >>
                   /\ Len(new.shields) = SHIELD_COUNT
                   /\ \A k \in 1..Len(new.shields) : new.shields[k].height = SHIELD_HEIGHT
                   /\ OnFullGrid(new)
                   /\ new.alienVel = ALIEN_VEL_INIT
                   /\ new.player.pos = PLAYER_POS_INIT

\* A game that ended with a score other than 0 and worn ammo can be started
\* again.
C4_AfterGameOver ==
    /\ GameOver
    /\ score # 0
    /\ ammo < AMMO_MAX
    /\ bullets # << >>
    /\ \E input \in Inputs : IsStart(input)

\* C5: a call of transition on a running state returns gameRunning = FALSE
\* exactly when, after the stages playerShoot to removeBullet of that call,
\* the player overlaps an alien or a bullet whose shooter is not PLAYER.
C5_StopsOnCollision == ran => (gameRunning = ~PlayerIsHit(advanced))

\* A call stopped the game while the player also overlapped a bullet of its
\* own.
C5_StoppedAmongOwnBullets ==
    /\ ran
    /\ ~gameRunning
    /\ PlayerIsHit(advanced)
    /\ \E k \in 1..Len(advanced.bullets) :
           /\ advanced.bullets[k].shooter = "PLAYER"
           /\ rectangleRectangleCollide(advanced.player, advanced.bullets[k])

\* Some alien of state s is at or above the lower edge of the player: the
\* test of noMoreAliens.
SomeAlienAbove(s) ==
    \E k \in 1..Len(s.aliens) : s.aliens[k].pos.y <= s.player.pos.y + s.player.height

\* States s and t differ at most in level, aliens and alienVel.
SameButAliens(s, t) ==
    /\ t.gameRunning = s.gameRunning
    /\ t.player = s.player
    /\ t.bullets = s.bullets
    /\ t.shields = s.shields
    /\ t.score = s.score
    /\ t.ammo = s.ammo
    /\ t.ammoRegenTimer = s.ammoRegenTimer
    /\ t.message = s.message

\* C6: in every state returned by a call of transition that stopped the
\* game, the score written into message is the score of that state.
C6_MessageScore == GameOver => message[2] = ToString(score)

\* The game ended in a call in which bullets of the player also killed
\* aliens: the message was written before the kills were counted.
C6_KilledWhileHit ==
    /\ GameOver
    /\ ran
    /\ Len(collided.aliens) < Len(advanced.aliens)
    /\ message[2] = ToString(advanced.score)
    /\ score > advanced.score

\* C7: in every reached state with gameRunning = TRUE the aliens are not
\* empty.
C7_AliensWhileRunning == gameRunning => aliens # << >>

\* The collisions of a call removed the last alien, and the call returned a
\* running game with aliens.
C7_LastAlienKilled ==
    /\ ran
    /\ collided.aliens = << >>
    /\ gameRunning
    /\ aliens # << >>

C9_LevelUp ==
    (ran /\ collided.aliens = << >>) =>
        \A l \in Layouts :
            LET out == noMoreAliens(collided, l)
                vel == collided.alienVel
            IN /\ out.level = collided.level + 1
               /\ OnFullGrid(out)
               /\ out.alienVel = Vec2(Abs(vel.x) + 5, Abs(vel.y) + 1)
               /\ out.alienVel.x > Abs(vel.x)
               /\ out.alienVel.y > Abs(vel.y)
               /\ SameButAliens(collided, out)
               /\ level = out.level
               /\ OnFullGrid(St)
               /\ alienVel = out.alienVel

\* The aliens moved to the left when the collisions of a call removed the
\* last one.
C9_LastKillMovingLeft ==
    /\ ran
    /\ collided.aliens = << >>
    /\ collided.alienVel.x < 0
    /\ level = collided.level + 1

\* C10: a call of transition on a running state returns the level it was
\* given or that level plus 1; the level goes down only when a stopped game
\* is started, and then to 1.
C10_LevelMonotone ==
    [][/\ gameRunning => level' \in {level, level + 1}
       /\ level' < level => ~gameRunning /\ gameRunning' /\ level' = 1]_vars

\* A call has raised the level of a running game.
C10_LevelRaised == ran /\ gameRunning /\ level > 1 /\ level > collided.level

----------------------------------------------------------------------------
(* C11: transition is a function of (state, input).  Two runs that start   *)
(* from the same state and are fed the same inputs hold identical states   *)
(* after every call: the alien shots and the letters of a new grid come    *)
(* from hashes of the state alone, and nothing is carried between calls.   *)

AlienBullets(s) ==
    LET ByAlien(b) == b.shooter = "ALIEN"
    IN Filter(s.bullets, ByAlien)

----------------------------------------------------------------------------
(* C12: rectangleRectangleCollide is the intersection of the half-open     *)
(* intervals [x, x + width) and [y, y + height) on both axes.              *)

\* Bounds of the rectangles the function is tried on: corners from 0 to
\* MaxCorner, sides from 0 to MaxSide.
MaxCorner == 2
MaxSide == 2

SmallRects ==
    {[pos |-> Vec2(x, y), width |-> w, height |-> h] :
        x \in 0..MaxCorner, y \in 0..MaxCorner,
        w \in 0..MaxSide, h \in 0..MaxSide}

\* The integers of the half-open interval [a, a + len).
HalfOpen(a, len) == {p \in 0..(MaxCorner + MaxSide) : a <= p /\ p < a + len}

\* The two rectangles share a point on both axes.
SharePoint(r1, r2) ==
    /\ HalfOpen(r1.pos.x, r1.width) \cap HalfOpen(r2.pos.x, r2.width) # {}
    /\ HalfOpen(r1.pos.y, r1.height) \cap HalfOpen(r2.pos.y, r2.height) # {}

\* The same for rectangles of any size: the intervals [a, a + v) and
\* [b, b + w), not empty, intersect when the larger start is below the
\* smaller end.
Meet(a, v, b, w) == v > 0 /\ w > 0 /\ Max2(a, b) < Min2(a + v, b + w)

Overlap(r1, r2) ==
    /\ Meet(r1.pos.x, r1.width, r2.pos.x, r2.width)
    /\ Meet(r1.pos.y, r1.height, r2.pos.y, r2.height)

EdgeAdjacent(r1, r2) ==
    \/ r1.pos.x + r1.width = r2.pos.x
    \/ r1.pos.y + r1.height = r2.pos.y

\* The rectangles of sides above 0.
Sized(r) == r.width > 0 /\ r.height > 0

\* What the claim says of the pair r1, r2, with a given reading of overlap.
RectLaw(r1, r2, Intersect(_, _)) ==
    /\ rectangleRectangleCollide(r1, r2) = rectangleRectangleCollide(r2, r1)
    /\ EdgeAdjacent(r1, r2) => ~rectangleRectangleCollide(r1, r2)
    /\ Sized(r1) /\ Sized(r2) => (rectangleRectangleCollide(r1, r2) = Intersect(r1, r2))

RectLawOnSmallRects == \A r1 \in SmallRects : \A r2 \in SmallRects : RectLaw(r1, r2, SharePoint)

\* C12: rectangleRectangleCollide is symmetric, false for edge-adjacent
\* rectangles and, for rectangles of positive size, true exactly when the
\* half-open intervals of the two rectangles intersect on both axes: on
\* every pair of small rectangles, and on the player against every alien
\* and every bullet the collision stages of a call were given.
C12_HalfOpenOverlap ==
    /\ RectLawOnSmallRects
    /\ \A k \in 1..Len(advanced.aliens) :
           RectLaw(advanced.player, advanced.aliens[k], Overlap)
    /\ \A k \in 1..Len(advanced.bullets) :
           RectLaw(advanced.player, advanced.bullets[k], Overlap)

\* A call left the game running with an alien whose left edge is exactly
\* on the player's right edge, at the player's height.
C12_AlienTouchesPlayer ==
    /\ ran
    /\ gameRunning
    /\ \E k \in 1..Len(advanced.aliens) :
           /\ advanced.player.pos.x + advanced.player.width = advanced.aliens[k].pos.x
           /\ Meet(advanced.player.pos.y, advanced.player.height,
                   advanced.aliens[k].pos.y, advanced.aliens[k].height)

----------------------------------------------------------------------------
(* C13, C14: the guard and the effect of playerShoot                       *)

\* The key is one uppercase letter of the alphabet.
SingleUpper(key) == Len(key) = 1 /\ \E n \in 1..Len(ABC) : ABC[n] = key[1]

\* The bullets of state s that the player shot.
PlayerBullets(s) ==
    LET ByPlayer(b) == b.shooter = "PLAYER"
    IN Filter(s.bullets, ByPlayer)

\* C13, as stated: on a running state playerShoot changes the state only
\* when the input carries a key that is a single uppercase letter and the
\* ammo is above 0.
C13_GuardAsStated ==
    gameRunning =>
        \A input \in KeyInputs :
            playerShoot(St, input) # St =>
                /\ "keyboard" \in DOMAIN input
                /\ SingleUpper(input.keyboard.key)
                /\ ammo > 0

\* A call has put a bullet of the player among the bullets whose character
\* is not a letter at all.
C13_BulletWithoutLetter ==
    /\ ran
    /\ \A k \in 1..Len(given.bullets) : SingleUpper(given.bullets[k].character)
    /\ \E k \in 1..Len(bullets) :
           /\ bullets[k].shooter = "PLAYER"
           /\ ~SingleUpper(bullets[k].character)

\* The key is one letter, of either case, and letter is its uppercase form.
PressedLetter(key, letter) ==
    /\ Len(key) = 1
    /\ \E n \in 1..Len(ABC) : letter = ABC[n] /\ (key[1] = ABC[n] \/ key[1] = LowerCase[n])

\* The bullet a shot from state s adds, but for its character.
ShotFrom(s, b) ==
    /\ b.shooter = "PLAYER"
    /\ b.pos = Vec2(s.player.pos.x + s.player.width \div 2 - BULLET_WIDTH \div 2,
                    s.player.pos.y)
    /\ b.vel = Vec2(0, 0 - BULLET_SPEED)
    /\ b.width = BULLET_WIDTH
    /\ b.height = BULLET_HEIGHT

\* C14: on a running state, whenever playerShoot returns another state than
\* the one it got, that state has one more bullet, at the end: a bullet of
\* the player at the middle of the player's top edge, moving up at
\* BULLET_SPEED, BULLET_WIDTH by BULLET_HEIGHT, with the pressed letter (in
\* uppercase) as character when the key is a letter; the ammo is one less,
\* the score SCORE_SHOOT_DECREMENT less, and nothing else has changed.
C14_ShootEffect ==
    gameRunning =>
        \A input \in KeyInputs :
            LET new == playerShoot(St, input)
                bullet == new.bullets[Len(new.bullets)]
            IN new # St =>
                /\ Len(new.bullets) = Len(bullets) + 1
                /\ SubSeq(new.bullets, 1, Len(bullets)) = bullets
                /\ ShotFrom(St, bullet)
                /\ \A n \in 1..Len(ABC) :
                       PressedLetter(input.keyboard.key, ABC[n]) => bullet.character = <<ABC[n]>>
                /\ new.ammo = ammo - 1
                /\ new.score = score - SCORE_SHOOT_DECREMENT
                /\ new.player = player
                /\ new.aliens = aliens
                /\ new.alienVel = alienVel
                /\ new.shields = shields
                /\ new.level = level
                /\ new.ammoRegenTimer = ammoRegenTimer
                /\ new.gameRunning = gameRunning
                /\ new.message = message

\* A call in which the player shot with the letter A: its bullet, moved
\* once, is among the bullets, one unit of ammo is gone and the score has
\* gone below 0.
C14_ShotBelowZero ==
    /\ ran
    /\ ammo = given.ammo - 1
    /\ score = given.score - SCORE_SHOOT_DECREMENT
    /\ score < 0
    /\ \E k \in 1..Len(bullets) :
           /\ ShotFrom(given, [bullets[k] EXCEPT !.pos = Vec2(bullets[k].pos.x,
                                                    bullets[k].pos.y + BULLET_SPEED)])
           /\ bullets[k].character = <<"A">>
           /\ \A j \in 1..Len(given.bullets) : given.bullets[j].pos.x # bullets[k].pos.x

----------------------------------------------------------------------------
(* C15: moveAlien.  No stage before moveAlien writes aliens or alienVel,   *)
(* and none between it and removeBullet: given holds its argument's aliens *)
(* and velocity, and advanced its result's.                                *)

\* Some alien of state s would cross the left wall, or the right wall, on
\* its next move.
HitsLeftWall(s) == \E k \in 1..Len(s.aliens) : s.aliens[k].pos.x + s.alienVel.x < 0
HitsRightWall(s) ==
    \E k \in 1..Len(s.aliens) : s.aliens[k].pos.x + ALIEN_WIDTH + s.alienVel.x > CANVAS_WIDTH

\* Every alien of s has become the alien of t at the same place in the
\* collection, moved by dx and dy.
Shifted(s, t, dx, dy) ==
    /\ Len(t.aliens) = Len(s.aliens)
    /\ \A k \in 1..Len(s.aliens) :
           t.aliens[k] = [s.aliens[k] EXCEPT !.pos = Vec2(s.aliens[k].pos.x + dx,
                                                         s.aliens[k].pos.y + dy)]

\* C15: in a call on a running state, if an alien would cross a wall then
\* alienVel.x is negated, alienVel.y is kept, every alien goes down by
\* ALIEN_DROP_AMOUNT and all are shifted sideways by one offset that puts
\* the leftmost alien at x = 0 (left wall) or the rightmost alien at
\* x = CANVAS_WIDTH - ALIEN_WIDTH (right wall); if not, every alien is moved
\* by alienVel, which is kept.  Number, order, sizes and characters of the
\* aliens are kept in both cases.
C15_WallBounce ==
    ran =>
        LET xs == {advanced.aliens[k].pos.x : k \in 1..Len(advanced.aliens)}
        IN IF HitsLeftWall(given) \/ HitsRightWall(given)
           THEN /\ advanced.alienVel = Vec2(0 - given.alienVel.x, given.alienVel.y)
                /\ \E dx \in {advanced.aliens[1].pos.x - given.aliens[1].pos.x} :
                       Shifted(given, advanced, dx, ALIEN_DROP_AMOUNT)
                /\ IF HitsLeftWall(given)
                   THEN 0 \in xs /\ \A x \in xs : x >= 0
                   ELSE /\ (CANVAS_WIDTH - ALIEN_WIDTH) \in xs
                        /\ \A x \in xs : x <= CANVAS_WIDTH - ALIEN_WIDTH
           ELSE /\ advanced.alienVel = given.alienVel
                /\ Shifted(given, advanced, given.alienVel.x, given.alienVel.y)

\* A call in which the aliens, moving left, reached the left wall.
C15_LeftWall ==
    /\ ran
    /\ HitsLeftWall(given)
    /\ given.alienVel.x < 0
    /\ alienVel.x > 0
    /\ \E k \in 1..Len(aliens) : aliens[k].pos.x = 0

----------------------------------------------------------------------------
(* C16: the player stays on the canvas, at its height                      *)

\* x brought into the range the player's left edge may take.
Confined(x) ==
    IF x < 0 THEN 0
    ELSE IF x > CANVAS_WIDTH - PLAYER_WIDTH THEN CANVAS_WIDTH - PLAYER_WIDTH
    ELSE x

\* The player of state s, its left edge at x.
PlayerAt(s, x) == [s.player EXCEPT !.pos = Vec2(x, s.player.pos.y)]

\* C16: in every reached state the player's x is from 0 to
\* CANVAS_WIDTH - PLAYER_WIDTH, its y, width and height are those of the
\* constructed player; and a call of transition returns another player
\* than it was given only on a running state with a pointer sample, when x
\* becomes the pointer's offset in the canvas less half the player's width,
\* brought into that range, and on a start, when the player is the
\* constructed one.
C16_PlayerConfined ==
    /\ 0 <= player.pos.x
    /\ player.pos.x <= CANVAS_WIDTH - PLAYER_WIDTH
    /\ player.pos.y = PLAYER_POS_INIT.y
    /\ player.width = PLAYER_WIDTH
    /\ player.height = PLAYER_HEIGHT
    /\ \A input \in PointerInputs : \A call \in Calls(St, input) :
           LET new == call.new
           IN IF ~gameRunning
              THEN new.player = IF IsStart(input)
                                THEN PlayerAt(St, PLAYER_POS_INIT.x)
                                ELSE player
              ELSE IF "mouse" \in DOMAIN input
              THEN new.player = PlayerAt(St, Confined(input.mouse.pos.x - CANVAS_POS_X
                                                          - PLAYER_WIDTH \div 2))
              ELSE new.player = player

\* A call moved the player against the right wall: the pointer was further
\* right than the player can go.
C16_AtRightWall ==
    /\ ran
    /\ given.player.pos.x < CANVAS_WIDTH - PLAYER_WIDTH
    /\ player.pos.x = CANVAS_WIDTH - PLAYER_WIDTH

----------------------------------------------------------------------------
(* C17: alienBulletCollision.  The two collision stages before it write    *)
(* gameRunning and message only, so it is given the aliens, bullets and    *)
(* score of advanced; shieldBulletCollision, after it, writes shields and  *)
(* bullets only, so collided holds the aliens and the score it returned.   *)

\* Sequence out is sequence seq without the elements at the places gone,
\* in the same order.
Without(seq, gone, out) ==
    /\ Len(out) = Len(seq) - Cardinality(gone)
    /\ \A k \in (1..Len(seq)) \ gone :
           out[k - Cardinality({g \in gone : g < k})] = seq[k]

\* The pairs <<alien, bullet>> of state s that overlap, the bullet not shot
\* by an alien.
KillPairs(s) ==
    LET shots == {j \in 1..Len(s.bullets) : s.bullets[j].shooter # "ALIEN"}
    IN {p \in (1..Len(s.aliens)) \X shots : Overlap(s.aliens[p[1]], s.bullets[p[2]])}

\* C17: in a call on a running state, with the overlapping pairs of an
\* alien and a bullet not shot by an alien taken in the state the stage is
\* given: the aliens returned are the aliens given without those in a
\* pair, the bullets returned are the bullets given without those in a
\* pair, and the score has grown by SCORE_ALIEN_KILL_CHAR_MATCH for every
\* pair with equal characters and by SCORE_ALIEN_KILL for every other
\* pair.  A bullet shot by an alien is in no pair.
C17_OneSnapshot ==
    ran =>
        LET pairs == KillPairs(advanced)
            matches == {p \in pairs : advanced.aliens[p[1]].character
                                        = advanced.bullets[p[2]].character}
            out == alienBulletCollision(advanced)
        IN /\ out.aliens = collided.aliens
           /\ out.score = collided.score
           /\ Without(advanced.aliens, {p[1] : p \in pairs}, out.aliens)
           /\ Without(advanced.bullets, {p[2] : p \in pairs}, out.bullets)
           /\ out.score = advanced.score
                             + Cardinality(matches) * SCORE_ALIEN_KILL_CHAR_MATCH
                             + Cardinality(pairs \ matches) * SCORE_ALIEN_KILL

\* A call in which one alien was shot with its own letter, while a bullet
\* that an alien shot lay over an alien and both stayed.
C17_LetterMatch ==
    /\ ran
    /\ Len(collided.aliens) = Len(advanced.aliens) - 1
    /\ collided.score = advanced.score + SCORE_ALIEN_KILL_CHAR_MATCH
    /\ \E k \in 1..Len(collided.aliens) : \E j \in 1..Len(collided.bullets) :
           /\ collided.bullets[j].shooter = "ALIEN"
           /\ Overlap(collided.aliens[k], collided.bullets[j])

----------------------------------------------------------------------------
(* C18: shieldBulletCollision.  It is given the shields of advanced and    *)
(* the bullets alienBulletCollision returned; collided is what it returns. *)

\* The bullets of bs from the given shooter that overlap shield s.
BulletsOn(s, bs, shooter) ==
    {j \in 1..Len(bs) : bs[j].shooter = shooter /\ Overlap(s, bs[j])}

\* C18: in a call on a running state, with p bullets of the player and a
\* bullets of aliens over a shield, among the bullets that
\* alienBulletCollision left: the shield's height goes down by
\* SHIELD_HEIGHT_REDUCTION * (p + a), its y goes up by
\* SHIELD_HEIGHT_REDUCTION * a, its x and width stay; the shields returned
\* are those whose new height is above 0, in order; and the bullets
\* returned are those that overlap no shield the stage was given.
C18_ShieldWear ==
    ran =>
        LET bs == alienBulletCollision(advanced).bullets
            sh == advanced.shields
            Worn(k) ==
                LET p == Cardinality(BulletsOn(sh[k], bs, "PLAYER"))
                    a == Cardinality(BulletsOn(sh[k], bs, "ALIEN"))
                IN [pos |-> Vec2(sh[k].pos.x, sh[k].pos.y + SHIELD_HEIGHT_REDUCTION * a),
                    width |-> sh[k].width,
                    height |-> sh[k].height - SHIELD_HEIGHT_REDUCTION * (p + a)]
            worn == [k \in 1..Len(sh) |-> Worn(k)]
        IN /\ Without(worn, {k \in 1..Len(sh) : worn[k].height <= 0}, collided.shields)
           /\ Without(bs, {j \in 1..Len(bs) : \E k \in 1..Len(sh) : Overlap(sh[k], bs[j])},
                      collided.bullets)

\* A call in which a bullet of an alien reached a shield, the first bullet
\* to reach any: the shield has lost height from the top, and the bullet is
\* gone.
C18_WornFromAbove ==
    /\ ran
    /\ advanced.shields = InitialShields
    /\ Len(collided.shields) = Len(advanced.shields)
    /\ \E k \in 1..Len(collided.shields) :
           /\ collided.shields[k].pos.y = advanced.shields[k].pos.y + SHIELD_HEIGHT_REDUCTION
           /\ collided.shields[k].height = advanced.shields[k].height - SHIELD_HEIGHT_REDUCTION
           /\ \E j \in 1..Len(advanced.bullets) :
                  /\ advanced.bullets[j].shooter = "ALIEN"
                  /\ Overlap(advanced.shields[k], advanced.bullets[j])
    /\ Len(collided.bullets) < Len(advanced.bullets)

----------------------------------------------------------------------------
(* C19: the period of the ammo regeneration.  age counts the calls that    *)
(* ran the reduce since the world was started with ammoRegenTimer at       *)
(* AMMO_REGEN_TIMER.                                                        *)

\* The last call ran the second branch of ammoRegen: it was given a
\* countdown of 0 and set it back.
Regenerated == ran /\ given.ammoRegenTimer = 0 /\ ammoRegenTimer = AMMO_REGEN_TIMER

\* C19, as stated: the countdown is from 0 to AMMO_REGEN_TIMER, and the ammo
\* is regenerated AMMO_REGEN_TIMER running calls after the countdown was set
\* to AMMO_REGEN_TIMER, by the start or by the regeneration before: on the
\* running calls whose number since the start is a multiple of
\* AMMO_REGEN_TIMER.
C19_PeriodAsStated ==
    /\ 0 <= ammoRegenTimer
    /\ ammoRegenTimer <= AMMO_REGEN_TIMER
    /\ Regenerated => age % AMMO_REGEN_TIMER = 0

\* The first regeneration of a game, on running call AMMO_REGEN_TIMER + 1:
\* the call before it brought the countdown to 0 and left the ammo alone.
C19_RegenOneCallLate ==
    /\ Regenerated
    /\ age = AMMO_REGEN_TIMER + 1
    /\ given.ammo < AMMO_MAX
    /\ ammo > given.ammo

----------------------------------------------------------------------------
(* C20: bullets leave the collection at the top of the canvas only         *)

\* Bullet b after one moveBullet.
MovedOnce(b) == [b EXCEPT !.pos = Vec2(b.pos.x + b.vel.x, b.pos.y + b.vel.y)]

\* Bullet b is one of the bullets of state s.
Among(b, s) == \E j \in 1..Len(s.bullets) : s.bullets[j] = b

\* Bullet b was shot by an alien and is below the bottom edge of the player
\* of state s.
PastPlayer(b, s) == b.shooter = "ALIEN" /\ b.pos.y > s.player.pos.y + s.player.height

----------------------------------------------------------------------------
(* C21: no collision of the player is carried into a running state         *)

\* The aliens, and the bullets shot by aliens, of state s that overlap the
\* player of s.
AliensOnPlayer(s) == {k \in 1..Len(s.aliens) : Overlap(s.player, s.aliens[k])}
AlienBulletsOnPlayer(s) ==
    {k \in 1..Len(s.bullets) :
        s.bullets[k].shooter = "ALIEN" /\ Overlap(s.player, s.bullets[k])}

\* C21: in every running state the player overlaps no alien and no bullet
\* shot by an alien; and the stages of a call that come after the two
\* collision checks of the player put nothing on the player: the player is
\* the one the checks saw, and an alien or an alien's bullet that overlaps
\* it when the call returns was already there, overlapping it, when the
\* checks ran.
C21_NoCollisionCarried ==
    /\ gameRunning => AliensOnPlayer(St) = {} /\ AlienBulletsOnPlayer(St) = {}
    /\ ran =>
          /\ player = advanced.player
          /\ \A k \in AliensOnPlayer(St) :
                 \E j \in AliensOnPlayer(advanced) : advanced.aliens[j] = aliens[k]
          /\ \A k \in AlienBulletsOnPlayer(St) :
                 \E j \in AlienBulletsOnPlayer(advanced) : advanced.bullets[j] = bullets[k]

\* A call left the game running with an alien's bullet right above the
\* player: its next move puts it on the player.
C21_BulletAboutToHit ==
    /\ ran
    /\ gameRunning
    /\ \E k \in 1..Len(bullets) :
           /\ bullets[k].shooter = "ALIEN"
           /\ ~Overlap(player, bullets[k])
           /\ Overlap(player, MovedOnce(bullets[k]))

----------------------------------------------------------------------------
(* C22: the aliens stay between the walls                                  *)

\* Every alien of state s is on the canvas sideways.
BetweenWalls(s) ==
    \A k \in 1..Len(s.aliens) :
        0 <= s.aliens[k].pos.x /\ s.aliens[k].pos.x <= CANVAS_WIDTH - ALIEN_WIDTH

\* C22: in every state every alien has 0 <= pos.x <= CANVAS_WIDTH -
\* ALIEN_WIDTH, and so has every alien of the accumulator moveAlien leaves
\* in a call on a running state; and no call finds both the left-wall and
\* the right-wall condition of moveAlien true.
C22_AliensBetweenWalls ==
    /\ BetweenWalls(St)
    /\ ran =>
          /\ BetweenWalls(advanced)
          /\ ~(HitsLeftWall(given) /\ HitsRightWall(given))

\* A call at level 2, after the left column of the grid was shot and the
\* grid came back from the right wall: the aliens were nearer to the left
\* wall than one step, and stand on it.
C22_ShortStepToWall ==
    /\ ran
    /\ level = 2
    /\ Len(aliens) < ALIEN_ROWS * ALIEN_COLS
    /\ HitsLeftWall(given)
    /\ \E k \in 1..Len(given.aliens) :
           /\ given.aliens[k].pos.x > 0
           /\ given.aliens[k].pos.x < 0 - given.alienVel.x
           /\ k <= Len(aliens)
           /\ aliens[k].pos.x = 0

============================================================================
